---- MODULE Spec2Model ----
(***************************************************************************)
(* Inference pipeline of the exoplanet research platform:                  *)
(* app/api/api_v1/endpoints/analysis.py, app/services/exoplanet_service.py *)
(* and app/ml/model_handler.py.                                            *)
(*                                                                         *)
(* Request handlers (analyze_candidate, bulk_analyze_candidates,           *)
(* delete_upload) are one action each.  Background tasks run after the     *)
(* response and interleave with the handlers and with each other: the      *)
(* single-record task is one step, the batch task takes per chunk one      *)
(* fetch-and-predict step and one store step per row.                      *)
(*                                                                         *)
(* Confidence scores are in thousandths (0.8 is 800).                      *)
(*                                                                         *)
(* Expert feedback and the consensus score: app/services/                  *)
(* feedback_service.py, app/api/api_v1/endpoints/feedback.py and the       *)
(* verdict handler of analysis.py.  The feedback handlers run in the       *)
(* server's thread pool, so create_feedback is two steps: its reads (the   *)
(* duplicate check and the weight) and its insert.  Feedback confidence    *)
(* is in hundredths, feedback weight in thousandths, scores are fractions. *)
(***************************************************************************)
EXTENDS Integers, Sequences, FiniteSets, Bags, TLC

\* ---------------------------------------------------------------- bounds
NumCandidates == 3
MaxTasks == 2
NumUsers == 2

\* chunk length of run_bulk_ml_prediction (100 in the source, scaled down)
batch_size == 2

\* feedback entries created or being created in one behaviour, and the
\* records experts review
MaxFeedback == 2
NumReviewed == 2

\* rows of a frame handed to the model handler
MaxRows == 2

Ids == 1..NumCandidates
Reviewed == 1..NumReviewed
TaskIds == 1..MaxTasks
Users == 1..NumUsers

\* ----------------------------------------------------------- enumerations
PENDING == "pending"
PROCESSING == "processing"
COMPLETED == "completed"
ERROR == "error"
AnalysisStatus == {PENDING, PROCESSING, COMPLETED, ERROR}

None == "None"
NoRow == [deleted |-> TRUE]

HTTP_200_OK == 200
HTTP_201_CREATED == 201
HTTP_400_BAD_REQUEST == 400
HTTP_403_FORBIDDEN == 403
HTTP_404_NOT_FOUND == 404

\* ------------------------------------------------- static record columns
\* Columns that no operation of the pipeline writes.
FileNames == {"a.csv", "b.csv"}
original_csv_filename(c) == IF c <= 2 THEN "a.csv" ELSE "b.csv"
researcher_id(c) == IF c % 2 = 1 THEN 1 ELSE 2
\* the feature row of a record (getattr(candidate, column) per column)
feature_row(c) == c

\* candidates       the exoplanet_candidates table, by id
\* tasks, created   the background tasks added so far and their number
\* model_available  whether the model and scaler files load (joblib.load)
\* response         the HTTP response a handler has returned, until sent
\* log              the outcome a background task has logged, until written
\* feedback         the researcher_feedback rows of the reviewed records, by
\*                  id (a deleted row leaves its id unused)
\* submitting       the create_feedback calls between their reads and their
\*                  insert
\* users            the users table: role, and the number of the user's
\*                  feedback rows on records outside Reviewed
\* authored         history: the number of feedback rows each user has
\*                  inserted so far, deleted ones included
\* model_kind       which of predict_proba and decision_function the loaded
\*                  classifier has
\* frame, result    the frame a caller hands to the model handler, and what
\*                  the call returned
VARIABLES candidates, tasks, created, model_available, response, log,
          feedback, submitting, users, authored, model_kind, frame, result
vars == <<candidates, tasks, created, model_available, response, log,
          feedback, submitting, users, authored, model_kind, frame, result>>
pipeline_vars == <<tasks, created, model_available, log>>
feedback_vars == <<feedback, submitting, users, authored>>
ml_vars == <<model_kind, frame, result>>

\* ---------------------------------------------------------------- helpers
Min(S) == CHOOSE x \in S : \A y \in S : x <= y
Range(s) == {s[k] : k \in 1..Len(s)}

RECURSIVE SortedSeq(_)
SortedSeq(S) == IF S = {} THEN <<>>
                ELSE LET m == Min(S) IN <<m>> \o SortedSeq(S \ {m})

\* ------------------------------------------------------ ExoplanetService
get_candidate_by_id(db, id) == IF id \in Ids THEN db[id] ELSE NoRow

Found(db, id) == get_candidate_by_id(db, id) # NoRow

\* update_analysis_status after its not-found check (the caller tests Found)
update_analysis_status(db, id, new_status) ==
    [db EXCEPT ![id].analysis_status = new_status]

\* update_ai_prediction after its not-found check
update_ai_prediction(db, id, prediction, confidence) ==
    [db EXCEPT ![id].ai_prediction = prediction,
               ![id].ai_confidence_score = confidence,
               ![id].analysis_status = COMPLETED]

\* ------------------------------------------------------ ExoplanetMLModel
\* The trained classifier is an external artefact: a fixed function of the
\* feature row (a number stands for the row's values).  It returns a raw
\* class, an integer or a string, and has predict_proba (the largest class
\* probability, in thousandths), or decision_function (a signed margin), or
\* neither.
IntClass(n) == [int |-> n]
StrClass(s) == [str |-> s]
IsInt(pred) == DOMAIN pred = {"int"}

RawOutputs ==
    <<IntClass(0), IntClass(1), IntClass(2), StrClass("FALSE POSITIVE"),
      StrClass("CONFIRMED"), StrClass("CANDIDATE"), IntClass(3),
      IntClass(-1), StrClass("candidate")>>

model_predict(row) == RawOutputs[(row % Len(RawOutputs)) + 1]
model_predict_proba(row) == 600 + 100 * (row % 4)
model_decision_function(row) == (row % 7) - 3

PREDICT_PROBA == "predict_proba"
DECISION_FUNCTION == "decision_function"
NEITHER == "neither"
ModelKinds == {PREDICT_PROBA, DECISION_FUNCTION, NEITHER}

\* f"UNKNOWN({pred_value})"
Unknown(pred) ==
    "UNKNOWN(" \o (IF IsInt(pred) THEN ToString(pred.int) ELSE pred.str)
               \o ")"

prediction_map_IntegersOnly(pred) ==
    IF IsInt(pred) /\ pred.int \in 0..2
    THEN <<"FALSE POSITIVE", "CONFIRMED", "CANDIDATE">>[pred.int + 1]
    ELSE Unknown(pred)

\* prediction_map.get(pred_value, f"UNKNOWN({pred_value})")
prediction_map(pred) ==
    IF IsInt(pred)
    THEN CASE pred.int = 0 -> "FALSE POSITIVE"
           [] pred.int = 1 -> "CONFIRMED"
           [] pred.int = 2 -> "CANDIDATE"
           [] OTHER -> Unknown(pred)
    ELSE IF pred.str \in {"FALSE POSITIVE", "CONFIRMED", "CANDIDATE"}
    THEN pred.str
    ELSE Unknown(pred)

Abs(x) == IF x < 0 THEN -x ELSE x

\* np.exp(-x) for a whole x >= 0, in thousandths, rounded down
RECURSIVE ExpNeg(_)
ExpNeg(x) == IF x = 0 THEN 1000 ELSE (ExpNeg(x - 1) * 368) \div 1000

\* 1 / (1 + np.exp(-x)), in thousandths
Sigmoid(x) == (1000 * 1000) \div (1000 + ExpNeg(x))

Confidence_StoreMargin(kind, row) ==
    IF kind = PREDICT_PROBA THEN model_predict_proba(row)
    ELSE IF kind = DECISION_FUNCTION THEN 1000 * model_decision_function(row)
    ELSE 800

\* lines 136-148 and 214-221: the confidence of one row
Confidence(kind, row) ==
    IF kind = PREDICT_PROBA THEN model_predict_proba(row)
    ELSE IF kind = DECISION_FUNCTION
    THEN Sigmoid(Abs(model_decision_function(row)))
    ELSE 800

Raised == [raised |-> TRUE]

\* predict: raises when the model is not loaded or the classifier or the
\* conversion of its answer raises (fails), otherwise returns (label,
\* confidence)

predict(model_loaded, row, fails) ==
    IF ~model_loaded \/ fails THEN Raised
    ELSE [raised |-> FALSE,
          prediction |-> prediction_map(model_predict(row)),
          confidence |-> Confidence(model_kind, row)]

\* ------------------------------------------- frames and preprocess_data
\* A frame is its set of column names and its rows, each row a function of
\* the column names; a null cell holds None.  Feature values are in tenths.
feature_columns ==
    <<"koi_score", "koi_fpflag_nt", "koi_fpflag_ss", "koi_fpflag_co",
      "koi_fpflag_ec", "koi_period", "koi_time0bk", "koi_impact",
      "koi_duration", "koi_depth", "koi_prad", "koi_teq", "koi_insol",
      "koi_model_snr", "koi_tce_plnt_num", "koi_steff", "koi_slogg",
      "koi_srad", "ra", "dec", "koi_kepmag">>

FeatureColumns == {feature_columns[k] : k \in 1..Len(feature_columns)}

flag_columns ==
    {"koi_fpflag_ss", "koi_fpflag_co", "koi_fpflag_nt", "koi_fpflag_ec"}

numerical_cols == FeatureColumns \ flag_columns

default_values ==
    [koi_period |-> 100, koi_time0bk |-> 1310, koi_impact |-> 5,
     koi_duration |-> 30, koi_depth |-> 1000, koi_prad |-> 20,
     koi_teq |-> 10000, koi_insol |-> 10000, koi_model_snr |-> 100,
     koi_tce_plnt_num |-> 10, koi_steff |-> 50000, koi_slogg |-> 40,
     koi_srad |-> 10, ra |-> 1800, dec |-> 0, koi_kepmag |-> 140,
     koi_score |-> 5]

\* default_values.get(col, 0.0)
default_values_get(col) ==
    IF col \in DOMAIN default_values THEN default_values[col] ELSE 0

\* validate_input_format, line 187
optional_columns ==
    flag_columns \cup {"koi_impact", "koi_duration", "koi_depth", "koi_prad",
                       "koi_insol", "koi_steff", "koi_slogg", "koi_srad",
                       "dec"}

isna(x) == ToString(x) = ToString(None)

\* Series.median(): of the values that are not null; the mean of the two
\* middle ones when their number is even (whole for the values of the model)
Median(values) ==
    LET sorted == SortSeq(values, LAMBDA a, b : a < b)
        n == Len(sorted)
    IN IF n % 2 = 1 THEN sorted[(n + 1) \div 2]
       ELSE (sorted[n \div 2] + sorted[(n \div 2) + 1]) \div 2

\* the values of a column that are not null, in row order
RECURSIVE NotNa(_, _, _)
NotNa(rows, col, k) ==
    IF k > Len(rows) THEN <<>>
    ELSE IF isna(rows[k][col]) THEN NotNa(rows, col, k + 1)
    ELSE <<rows[k][col]>> \o NotNa(rows, col, k + 1)

\* lines 62-64: flag columns the frame lacks are added with 0
AddFlagColumns(df) ==
    [columns |-> df.columns \cup flag_columns,
     rows |-> [k \in 1..Len(df.rows) |->
                 [c \in df.columns \cup flag_columns |->
                    IF c \in df.columns THEN df.rows[k][c] ELSE 0]]]

FillValue_ZeroWhenEmpty(rows, col) ==
    IF col \in flag_columns THEN 0
    ELSE IF NotNa(rows, col, 1) # <<>> THEN Median(NotNa(rows, col, 1))
    ELSE 0

\* lines 71-105: what fillna puts into the null cells of a column
FillValue(rows, col) ==
    IF col \in flag_columns THEN 0
    ELSE IF NotNa(rows, col, 1) # <<>> THEN Median(NotNa(rows, col, 1))
    ELSE default_values_get(col)

\* lines 69-105 on the frame of line 67
FillNa(rows) ==
    [k \in 1..Len(rows) |->
        [c \in FeatureColumns |->
           IF isna(rows[k][c]) THEN FillValue(rows, c) ELSE rows[k][c]]]

\* scaler.transform: the fitted scaler is an external artefact, a fixed
\* shift of every cell
scaler_transform(rows) ==
    [k \in 1..Len(rows) |-> [c \in FeatureColumns |-> rows[k][c] - 50]]

PreprocessingFailed == [raised |-> TRUE, error |-> "Data preprocessing failed"]

\* preprocess_data: selecting feature_columns (line 67) raises a KeyError
\* for a column the frame lacks, which becomes the ValueError of line 119.
\* filled is feature_df as it is before line 107.
preprocess_data(scaler_loaded, df) ==
    LET feature_df == AddFlagColumns(df) IN
    IF ~(FeatureColumns \subseteq feature_df.columns)
    THEN PreprocessingFailed
    ELSE LET selected == [k \in 1..Len(df.rows) |->
                            [c \in FeatureColumns |-> feature_df.rows[k][c]]]
             filled == FillNa(selected)
         IN [raised |-> FALSE, columns |-> feature_columns,
             filled |-> filled,
             rows |-> IF scaler_loaded THEN scaler_transform(filled)
                      ELSE filled]

\* validate_input_format: false only for a missing column that is not
\* optional
validate_input_format(df) ==
    LET missing_columns == FeatureColumns \ df.columns
        critical_missing == missing_columns \ optional_columns
    IN critical_missing = {}

\* response holds what a request handler returned until the server has sent
\* it; NoResponse when nothing is waiting to be sent
NoResponse == [op |-> "none", status_code |-> 0]

\* log holds the closing log record of a background task until the logger
\* has written it
NoLog == [event |-> "none"]

\* ------------------------------------------------------------------ tasks
NoTask == [pc |-> "none"]
DoneTask == [pc |-> "done"]

\* add_task(run_ml_prediction, candidate_id, db)
NewSingleTask(c) ==
    [kind |-> "single", pc |-> "start", candidate_ids |-> <<c>>]

\* add_task(run_bulk_ml_prediction, candidate_ids, db), with the locals of
\* lines 304-307 at their first values
NewBulkTask(ids) ==
    [kind |-> "bulk", pc |-> "chunk", candidate_ids |-> ids, i |-> 0,
     batch_ids |-> <<>>, candidate_map |-> <<>>, batch_data |-> <<>>,
     predictions |-> <<>>, idx |-> 0,
     total_processed |-> 0, total_successful |-> 0, total_errors |-> 0]

HasKind(t, k) == tasks[t].pc \notin {"none", "done"} /\ tasks[t].kind = k
IsSingle(t) == HasKind(t, "single")
IsBulk(t) == HasKind(t, "bulk")

\* ------------------------------------------------------------- fractions
\* A float that is a quotient is kept as the fraction in lowest terms;
\* rounding of the floating-point division is not modelled.
RECURSIVE GCD(_, _)
GCD(a, b) == IF b = 0 THEN a ELSE GCD(b, a % b)

Fraction(n, d) == LET g == GCD(n, d) IN [num |-> n \div g, den |-> d \div g]
Zero == [num |-> 0, den |-> 1]

\* --------------------------------------------------- users and verdicts
RESEARCHER == "researcher"
ADMIN == "admin"
MODERATOR == "moderator"
UserRole == {RESEARCHER, ADMIN, MODERATOR}

VERDICT_PENDING == "pending"
FinalVerdict == {VERDICT_PENDING, "confirmed", "false_positive", "candidate"}

\* the users of a running system: the roles by id, no feedback elsewhere
InitialUsers ==
    [u \in Users |->
        [role |-> IF u % 3 = 1 THEN RESEARCHER
                  ELSE IF u % 3 = 2 THEN ADMIN ELSE MODERATOR,
         other_feedback |-> 0]]

\* ------------------------------------------------------- FeedbackService
FeedbackIds == 1..MaxFeedback

\* the ids of the stored rows
StoredIds(fb) == {i \in 1..Len(fb) : fb[i] # NoRow}

get_feedback_by_id(fb, feedback_id) ==
    IF feedback_id \in 1..Len(fb) THEN fb[feedback_id] ELSE NoRow

get_feedback_by_candidate(fb, candidate_id) ==
    {i \in StoredIds(fb) : fb[i].candidate_id = candidate_id}

\* func.count(ResearcherFeedback.id) filtered on the researcher, over the
\* whole table
previous_feedback_count(fb, usrs, user_id) ==
    usrs[user_id].other_feedback
       + Cardinality({i \in StoredIds(fb) : fb[i].researcher_id = user_id})

\* role_weights, in tenths
role_weights(role) ==
    IF role = RESEARCHER THEN 10
    ELSE IF role = MODERATOR THEN 12
    ELSE IF role = ADMIN THEN 15
    ELSE 10

experience_multiplier_Uncapped(previous) == 100 + previous

\* min(1.0 + previous_feedback_count * 0.01, 2.0), in hundredths
experience_multiplier(previous) == Min({100 + previous, 200})

\* _calculate_feedback_weight, in thousandths
calculate_feedback_weight(fb, usrs, user_id) ==
    IF user_id \notin DOMAIN usrs THEN 1000
    ELSE role_weights(usrs[user_id].role)
            * experience_multiplier(previous_feedback_count(fb, usrs, user_id))

\* ---------------------------------------------------------------- Init
\* no frame handed to the model handler, no call of it returned
NoFrame == [columns |-> {}, rows |-> <<>>]
NoResult == [op |-> "none"]

InitialCandidate ==
    [analysis_status |-> PENDING, final_verdict |-> VERDICT_PENDING,
     consensus_score |-> Zero, ai_prediction |-> None,
     ai_confidence_score |-> None]

Init ==
    /\ candidates = [c \in Ids |-> InitialCandidate]
    /\ tasks = [t \in TaskIds |-> NoTask]
    /\ created = 0
    /\ model_available \in BOOLEAN
    /\ response = NoResponse
    /\ log = NoLog
    /\ feedback = <<>>
    /\ submitting = EmptyBag
    /\ users = InitialUsers
    /\ authored = [u \in Users |-> 0]
    /\ model_kind = PREDICT_PROBA
    /\ frame = NoFrame
    /\ result = NoResult

\* ---------------------------------------------- POST /predict/{candidate_id}
\* lines 47-59: the status flip, the task and the placeholder response
StartAnalysis_StorePlaceholder(candidate_id) ==
    /\ created < MaxTasks
    /\ candidates' = [candidates EXCEPT
                        ![candidate_id].analysis_status = PROCESSING,
                        ![candidate_id].ai_prediction = "PROCESSING",
                        ![candidate_id].ai_confidence_score = 0]
    /\ created' = created + 1
    /\ tasks' = [tasks EXCEPT ![created + 1] = NewSingleTask(candidate_id)]
    /\ response' = [op |-> "predict", status_code |-> HTTP_200_OK,
                    candidate_id |-> candidate_id,
                    prediction |-> "PROCESSING",
                    confidence_score |-> 0]

StartAnalysis(candidate_id) ==
    /\ created < MaxTasks
    /\ candidates' = update_analysis_status(candidates, candidate_id, PROCESSING)
    /\ created' = created + 1
    /\ tasks' = [tasks EXCEPT ![created + 1] = NewSingleTask(candidate_id)]
    /\ response' = [op |-> "predict", status_code |-> HTTP_200_OK,
                    candidate_id |-> candidate_id,
                    prediction |-> "PROCESSING",
                    confidence_score |-> 0]

analyze_candidate_Recompute(candidate_id) ==
    /\ LET candidate == get_candidate_by_id(candidates, candidate_id) IN
       IF candidate = NoRow
       THEN /\ response' = [op |-> "predict",
                            status_code |-> HTTP_404_NOT_FOUND]
            /\ UNCHANGED <<candidates, tasks, created>>
       ELSE StartAnalysis(candidate_id)
    /\ UNCHANGED <<model_available, log>>

analyze_candidate(candidate_id) ==
    /\ LET candidate == get_candidate_by_id(candidates, candidate_id) IN
       IF candidate = NoRow
       THEN /\ response' = [op |-> "predict",
                            status_code |-> HTTP_404_NOT_FOUND]
            /\ UNCHANGED <<candidates, tasks, created>>
       ELSE IF candidate.analysis_status = COMPLETED
       THEN /\ response' = [op |-> "predict", status_code |-> HTTP_200_OK,
                            candidate_id |-> candidate_id,
                            prediction |-> candidate.ai_prediction,
                            confidence_score |-> candidate.ai_confidence_score]
            /\ UNCHANGED <<candidates, tasks, created>>
       ELSE StartAnalysis(candidate_id)
    /\ UNCHANGED <<model_available, log>>

\* ---------------------------------------------------- run_ml_prediction
SingleHandler_LogOnly(t, id) ==
    /\ log' = [event |-> "error", candidate_id |-> id]
    /\ UNCHANGED candidates

\* the except clause, lines 95-100; its status update raises again when the
\* record is gone, and that exception leaves the task
SingleHandler(t, id) ==
    /\ log' = [event |-> "error", candidate_id |-> id]
    /\ candidates' = IF Found(candidates, id)
                     THEN update_analysis_status(candidates, id, ERROR)
                     ELSE candidates

\* The whole task.  The model is constructed in the task (line 73); predict
\* raises when it did not load or the classifier raises (fails); storing
\* raises when the commit fails.
run_ml_prediction(t) ==
    /\ IsSingle(t)
    /\ tasks' = [tasks EXCEPT ![t] = DoneTask]
    /\ LET id == tasks[t].candidate_ids[1] IN
       IF ~Found(candidates, id)
       THEN /\ log' = [event |-> "not_found", candidate_id |-> id]
            /\ UNCHANGED candidates
       ELSE \E fails \in BOOLEAN, commit_fails \in BOOLEAN :
              LET r == predict(model_available, feature_row(id), fails) IN
              IF r.raised \/ commit_fails
              THEN SingleHandler(t, id)
              ELSE /\ candidates' = update_ai_prediction(
                                       candidates, id, r.prediction, r.confidence)
                   /\ log' = [event |-> "completed", candidate_id |-> id]
    /\ UNCHANGED <<created, model_available, response>>

\* ---------------------------------------------------- POST /bulk-predict
\* lines 240-255: the records the request selects.  With a file name, every
\* record of that file; without, the pending records (get_candidates with
\* status_filter PENDING).  user_id filters by owner when asked for.
SelectCandidates(db, filename, user_candidates_only, user_id) ==
    {c \in Ids :
        /\ db[c] # NoRow
        /\ IF filename # None
           THEN original_csv_filename(c) = filename
           ELSE db[c].analysis_status = PENDING
        /\ user_candidates_only => researcher_id(c) = user_id}

PendingCandidates_NotCompleted(db, selected) ==
    {c \in selected : db[c].analysis_status # COMPLETED}

PendingCandidates_NotTerminal(db, selected) ==
    {c \in selected : db[c].analysis_status \notin {COMPLETED, ERROR}}

\* lines 264-265
PendingCandidates(db, selected) ==
    {c \in selected : db[c].analysis_status = PENDING}

BulkMarkProcessing_Deferred(db, ids, k) == db

\* lines 276-279
RECURSIVE BulkMarkProcessing(_, _, _)
BulkMarkProcessing(db, ids, k) ==
    IF k > Len(ids) THEN db
    ELSE BulkMarkProcessing(update_analysis_status(db, ids[k], PROCESSING),
                            ids, k + 1)

bulk_analyze_candidates(filename, user_candidates_only, user_id) ==
    /\ LET selected == SelectCandidates(candidates, filename,
                                        user_candidates_only, user_id)
           pending_candidates == PendingCandidates(candidates, selected)
           candidate_ids == SortedSeq(pending_candidates)
       IN
       IF selected = {}
       THEN /\ response' = [op |-> "bulk", status_code |-> HTTP_404_NOT_FOUND]
            /\ UNCHANGED <<candidates, tasks, created>>
       ELSE IF pending_candidates = {}
       THEN /\ response' = [op |-> "bulk", status_code |-> HTTP_200_OK,
                            total_candidates |-> Cardinality(selected),
                            already_analyzed |-> Cardinality(selected),
                            queued_for_analysis |-> 0,
                            candidate_ids |-> <<>>]
            /\ UNCHANGED <<candidates, tasks, created>>
       ELSE /\ created < MaxTasks
            /\ candidates' = BulkMarkProcessing(candidates, candidate_ids, 1)
            /\ created' = created + 1
            /\ tasks' = [tasks EXCEPT
                           ![created + 1] = NewBulkTask(candidate_ids)]
            /\ response' =
                 [op |-> "bulk", status_code |-> HTTP_200_OK,
                  total_candidates |-> Cardinality(selected),
                  already_analyzed |-> Cardinality(selected)
                                       - Cardinality(pending_candidates),
                  queued_for_analysis |-> Cardinality(pending_candidates),
                  candidate_ids |-> candidate_ids]
    /\ UNCHANGED <<model_available, log>>

\* ------------------------------------------------ run_bulk_ml_prediction
batch_predict_NoLoadCheck(model_loaded, df, fails) ==
    IF fails THEN Raised
    ELSE [raised |-> FALSE,
          predictions |-> [k \in 1..Len(df) |->
                             [prediction |-> prediction_map(model_predict(df[k])),
                              confidence |-> Confidence(model_kind, df[k])]]]

\* batch_predict: validation and preprocessing accept the frame built from
\* feature_columns; raises when the model is not loaded or the classifier
\* raises on the frame (fails), otherwise one (label, confidence) per row in
\* row order
batch_predict(model_loaded, df, fails) ==
    IF ~model_loaded \/ fails THEN Raised
    ELSE [raised |-> FALSE,
          predictions |-> [k \in 1..Len(df) |->
                             [prediction |-> prediction_map(model_predict(df[k])),
                              confidence |-> Confidence(model_kind, df[k])]]]

\* line 310: candidate_ids[i:i + batch_size]
BatchIds(candidate_ids, i) ==
    LET n == Len(candidate_ids)
        last == IF i + batch_size < n THEN i + batch_size ELSE n
    IN SubSeq(candidate_ids, i + 1, last)

\* the for statement of line 309 taking its next value, or ending
NextChunk(task) ==
    LET i == task.i + batch_size IN
    [task EXCEPT !.i = i,
                 !.pc = IF i < Len(task.candidate_ids) THEN "chunk" ELSE "finish",
                 !.batch_ids = <<>>, !.candidate_map = <<>>,
                 !.batch_data = <<>>, !.predictions = <<>>, !.idx = 0]

\* lines 362-364
EndChunk(task) ==
    NextChunk([task EXCEPT !.total_processed = @ + Len(task.batch_ids)])

\* the task goes on as task or, the loop over, logs its counters (lines
\* 366-367) and ends
Continue(t, task) ==
    IF task.pc = "finish"
    THEN /\ tasks' = [tasks EXCEPT ![t] = DoneTask]
         /\ log' = [event |-> "bulk_completed",
                    candidate_ids |-> task.candidate_ids,
                    total_processed |-> task.total_processed,
                    total_successful |-> task.total_successful,
                    total_errors |-> task.total_errors]
    ELSE /\ tasks' = [tasks EXCEPT ![t] = task]
         /\ UNCHANGED log

MarkRemainingError_Requeue(db, candidate_ids) ==
    [c \in Ids |-> IF c \in Range(candidate_ids) /\ db[c] # NoRow
                   THEN [db[c] EXCEPT !.analysis_status = PENDING]
                   ELSE db[c]]

\* lines 372-377: every id of the task is marked, the missing ones skipped
MarkRemainingError(db, candidate_ids) ==
    [c \in Ids |-> IF c \in Range(candidate_ids) /\ db[c] # NoRow
                   THEN [db[c] EXCEPT !.analysis_status = ERROR]
                   ELSE db[c]]

\* the outer except clause, lines 369-377
OuterHandler(t, db) ==
    /\ candidates' = MarkRemainingError(db, tasks[t].candidate_ids)
    /\ tasks' = [tasks EXCEPT ![t] = DoneTask]
    /\ log' = [event |-> "bulk_error",
               candidate_ids |-> tasks[t].candidate_ids]

MarkBatchError_CountOnly(db, batch_ids, k, total_errors) ==
    [db |-> db, raised |-> FALSE,
     total_errors |-> total_errors + Len(batch_ids) * Len(batch_ids)]

\* lines 357-360: the loop over batch_ids; it stops at the first id whose
\* status update raises (record gone)
RECURSIVE MarkBatchError(_, _, _, _)
MarkBatchError(db, batch_ids, k, total_errors) ==
    IF k > Len(batch_ids)
    THEN [db |-> db, raised |-> FALSE, total_errors |-> total_errors]
    ELSE IF ~Found(db, batch_ids[k])
    THEN [db |-> db, raised |-> TRUE, total_errors |-> total_errors]
    ELSE MarkBatchError(update_analysis_status(db, batch_ids[k], ERROR),
                        batch_ids, k + 1, total_errors + Len(batch_ids))

\* the except clause of lines 354-360, then on to the next chunk; an
\* exception of the clause itself reaches the outer handler
ChunkHandler(t, task) ==
    LET m == MarkBatchError(candidates, task.batch_ids, 1, task.total_errors) IN
    IF m.raised
    THEN OuterHandler(t, m.db)
    ELSE /\ candidates' = m.db
         /\ Continue(t, EndChunk([task EXCEPT !.total_errors = m.total_errors]))

\* lines 313-315 and 321-326: the query has no ORDER BY, so the store returns
\* the chunk's existing records in any order; candidate_map lists their ids
\* in the order returned, which is the order of the rows of batch_data
query_all(db, batch_ids) ==
    LET found == {id \in Range(batch_ids) : Found(db, id)} IN
    {order \in [1..Cardinality(found) -> found] :
        \A j, k \in 1..Cardinality(found) : j # k => order[j] # order[k]}

\* line 340 indexed by the chunk's ids instead of the rows that were fetched
RowCandidate_ByBatchIds(task) == task.batch_ids[task.idx]

\* line 340: candidate_map[idx]
RowCandidate(task) == task.candidate_map[task.idx]

\* lines 297-298 and 309-336: construct the model on entry, then per chunk
\* fetch the chunk's records, build the frame, predict
BulkPredict(t) ==
    /\ IsBulk(t) /\ tasks[t].pc = "chunk"
    /\ \E fails \in BOOLEAN :
       \E candidate_map \in
             query_all(candidates, BatchIds(tasks[t].candidate_ids, tasks[t].i)) :
         LET batch_ids == BatchIds(tasks[t].candidate_ids, tasks[t].i)
             batch_data == [k \in 1..Len(candidate_map) |->
                              feature_row(candidate_map[k])]
             task == [tasks[t] EXCEPT !.batch_ids = batch_ids,
                                      !.candidate_map = candidate_map,
                                      !.batch_data = batch_data]
             r == batch_predict(model_available, batch_data, fails)
         IN IF batch_data = <<>>
            THEN /\ Continue(t, NextChunk(tasks[t]))
                 /\ UNCHANGED candidates
            ELSE IF r.raised
            THEN ChunkHandler(t, task)
            ELSE /\ tasks' = [tasks EXCEPT ![t] =
                                [task EXCEPT !.pc = "store",
                                             !.predictions = r.predictions,
                                             !.idx = 1]]
                 /\ UNCHANGED <<candidates, log>>
    /\ UNCHANGED <<created, model_available, response>>

\* the enumerate loop of line 339 moving on, or the chunk ending
NextRow(task) ==
    IF task.idx < Len(task.predictions)
    THEN [task EXCEPT !.idx = @ + 1]
    ELSE EndChunk(task)

\* lines 339-352: one iteration.  Storing raises when the record is gone or
\* the commit fails; the row's except clause marks the record error, and
\* raises itself when the record is gone, which the chunk's clause catches.
BulkStoreRow(t) ==
    /\ IsBulk(t) /\ tasks[t].pc = "store"
    /\ \E commit_fails \in BOOLEAN :
         LET task == tasks[t]
             candidate_id == RowCandidate(task)
             p == task.predictions[task.idx]
         IN IF ~Found(candidates, candidate_id)
            THEN ChunkHandler(t, task)
            ELSE IF commit_fails
            THEN /\ candidates' = update_analysis_status(candidates,
                                                         candidate_id, ERROR)
                 /\ Continue(t, NextRow([task EXCEPT !.total_errors = @ + 1]))
            ELSE /\ candidates' = update_ai_prediction(
                                     candidates, candidate_id,
                                     p.prediction, p.confidence)
                 /\ Continue(t, NextRow([task EXCEPT
                                           !.total_successful = @ + 1]))
    /\ UNCHANGED <<created, model_available, response>>

\* ------------------------------------------ DELETE /uploads/{candidate_id}
delete_candidate(candidate_id, user_id) ==
    /\ LET candidate == get_candidate_by_id(candidates, candidate_id) IN
       IF candidate = NoRow
       THEN /\ response' = [op |-> "delete",
                            status_code |-> HTTP_404_NOT_FOUND]
            /\ UNCHANGED candidates
       ELSE IF researcher_id(candidate_id) # user_id
       THEN /\ response' = [op |-> "delete",
                            status_code |-> HTTP_403_FORBIDDEN]
            /\ UNCHANGED candidates
       ELSE /\ candidates' = [candidates EXCEPT ![candidate_id] = NoRow]
            /\ response' = [op |-> "delete", status_code |-> HTTP_200_OK]
    /\ UNCHANGED <<tasks, created, model_available, log>>

\* ------------------------------------------------- POST /feedback/submit
\* the request bodies of the model: one classification and reasoning, two
\* confidences
Confidences == {50, 90}

ResearcherFeedbackCreate(candidate_id, confidence) ==
    [candidate_id |-> candidate_id, expert_classification |-> "CANDIDATE",
     detailed_reasoning |-> "first", confidence_score |-> confidence,
     agrees_with_ai |-> None]

existing_feedback_Unfiltered(fb, candidate_id, user_id) == {}

\* lines 16-19: the rows of this researcher for this candidate
existing_feedback(fb, candidate_id, user_id) ==
    {i \in StoredIds(fb) : /\ fb[i].candidate_id = candidate_id
                           /\ fb[i].researcher_id = user_id}

\* lines 30-34: the row to insert
db_feedback(feedback_data, user_id, feedback_weight) ==
    [candidate_id |-> feedback_data.candidate_id,
     researcher_id |-> user_id,
     expert_classification |-> feedback_data.expert_classification,
     detailed_reasoning |-> feedback_data.detailed_reasoning,
     confidence_score |-> feedback_data.confidence_score,
     agrees_with_ai |-> feedback_data.agrees_with_ai,
     feedback_weight |-> feedback_weight]

\* rows stored and rows about to be
FeedbackStarted == Len(feedback) + BagCardinality(submitting)

\* create_feedback up to the insert, lines 15-34: the duplicate check and
\* the weight, both read from the table as it is now
create_feedback_read(feedback_data, user_id) ==
    /\ IF existing_feedback(feedback, feedback_data.candidate_id, user_id) # {}
       THEN /\ response' = [op |-> "submit",
                            status_code |-> HTTP_400_BAD_REQUEST]
            /\ UNCHANGED submitting
       ELSE /\ FeedbackStarted < MaxFeedback
            /\ submitting' = submitting (+) SetToBag({
                  db_feedback(feedback_data, user_id,
                     calculate_feedback_weight(feedback, users, user_id))})
            /\ UNCHANGED response
    /\ UNCHANGED <<feedback, users, authored, candidates>>
    /\ UNCHANGED pipeline_vars
    /\ UNCHANGED ml_vars

\* lines 36-39 when the commit succeeds: the row gets the next id
StoreFeedback(row) ==
    /\ feedback' = Append(feedback, row)
    /\ response' = [op |-> "submit", status_code |-> HTTP_201_CREATED,
                    id |-> Len(feedback) + 1, row |-> row]
    /\ authored' = [authored EXCEPT ![row.researcher_id] = @ + 1]

\* lines 36-39: add, commit, refresh.  candidate_id is a foreign key
\* (models/feedback.py 10): for a candidate that is not stored the commit
\* raises where the database enforces foreign keys, and no handler catches
\* it; where it does not, the row is stored.
create_feedback_insert(row) ==
    /\ BagIn(row, submitting)
    /\ submitting' = submitting (-) SetToBag({row})
    /\ IF Found(candidates, row.candidate_id)
       THEN StoreFeedback(row)
       ELSE \E foreign_keys \in BOOLEAN :
               IF foreign_keys
               THEN /\ response' = [op |-> "submit", status_code |-> 500]
                    /\ UNCHANGED <<feedback, authored>>
               ELSE StoreFeedback(row)
    /\ UNCHANGED <<users, candidates>>
    /\ UNCHANGED pipeline_vars
    /\ UNCHANGED ml_vars

\* ------------------------------------------- PUT /feedback/{feedback_id}
\* the fields the update schema declares (schemas/feedback.py 39-46) that
\* the model keeps
UpdateFields ==
    {"expert_classification", "detailed_reasoning", "confidence_score",
     "agrees_with_ai"}

\* the request bodies of the model: a new confidence, and a new
\* classification, reasoning and agreement (the boolean as its name) sent
\* with a weight
UpdateBodies ==
    {[confidence_score |-> 50],
     [expert_classification |-> "CONFIRMED", detailed_reasoning |-> "revised",
      agrees_with_ai |-> "True", feedback_weight |-> 3000]}

ResearcherFeedbackUpdate_AnyField(body) == body

\* parsing the body keeps the declared fields that are set
\* (dict(exclude_unset=True)) and ignores every other key
ResearcherFeedbackUpdate(body) ==
    [k \in DOMAIN body \cap UpdateFields |-> body[k]]

NotOwner_AdminMay(row, user_id) ==
    row.researcher_id # user_id /\ users[user_id].role # ADMIN

\* lines 74 and 98
NotOwner(row, user_id) == row.researcher_id # user_id

update_feedback(feedback_id, body, user_id) ==
    /\ LET row == get_feedback_by_id(feedback, feedback_id)
           update_data == ResearcherFeedbackUpdate(body)
       IN
       IF row = NoRow
       THEN /\ response' = [op |-> "update",
                            status_code |-> HTTP_404_NOT_FOUND]
            /\ UNCHANGED feedback
       ELSE IF NotOwner(row, user_id)
       THEN /\ response' = [op |-> "update",
                            status_code |-> HTTP_403_FORBIDDEN]
            /\ UNCHANGED feedback
       ELSE /\ feedback' = [feedback EXCEPT ![feedback_id] =
                              [k \in DOMAIN row |->
                                 IF k \in DOMAIN update_data
                                 THEN update_data[k] ELSE row[k]]]
            /\ response' = [op |-> "update", status_code |-> HTTP_200_OK,
                            id |-> feedback_id, row |-> feedback'[feedback_id]]
    /\ UNCHANGED <<submitting, users, authored, candidates>>
    /\ UNCHANGED pipeline_vars
    /\ UNCHANGED ml_vars

\* ---------------------------------------- DELETE /feedback/{feedback_id}
delete_feedback(feedback_id, user_id) ==
    /\ LET row == get_feedback_by_id(feedback, feedback_id) IN
       IF row = NoRow
       THEN /\ response' = [op |-> "delete_feedback",
                            status_code |-> HTTP_404_NOT_FOUND]
            /\ UNCHANGED feedback
       ELSE IF NotOwner(row, user_id)
       THEN /\ response' = [op |-> "delete_feedback",
                            status_code |-> HTTP_403_FORBIDDEN]
            /\ UNCHANGED feedback
       ELSE /\ feedback' = [feedback EXCEPT ![feedback_id] = NoRow]
            /\ response' = [op |-> "delete_feedback",
                            status_code |-> HTTP_200_OK]
    /\ UNCHANGED <<submitting, users, authored, candidates>>
    /\ UNCHANGED pipeline_vars
    /\ UNCHANGED ml_vars

\* ------------------------------------------- GET /feedback/{feedback_id}
get_feedback(feedback_id) ==
    /\ LET row == get_feedback_by_id(feedback, feedback_id) IN
       response' = IF row = NoRow
                   THEN [op |-> "get_feedback",
                         status_code |-> HTTP_404_NOT_FOUND]
                   ELSE [op |-> "get_feedback", status_code |-> HTTP_200_OK,
                         id |-> feedback_id, row |-> row]
    /\ UNCHANGED <<feedback, submitting, users, authored, candidates>>
    /\ UNCHANGED pipeline_vars
    /\ UNCHANGED ml_vars

\* ------------------------------------------------------ consensus score
\* sum(f[x] for x in S)
RECURSIVE Sum(_, _)
Sum(f, S) == IF S = {} THEN 0
             ELSE LET x == CHOOSE y \in S : TRUE IN f[x] + Sum(f, S \ {x})

total_weight(fb, entries) == Sum([i \in entries |-> fb[i].feedback_weight],
                                 entries)

weighted_confidence_Unweighted(fb, entries) ==
    Sum([i \in entries |-> fb[i].confidence_score * 1000], entries)

\* sum(fb.confidence_score * fb.feedback_weight for fb in feedback_entries)
weighted_confidence(fb, entries) ==
    Sum([i \in entries |-> fb[i].confidence_score * fb[i].feedback_weight],
        entries)

\* weighted / total_weight if total_weight > 0 else 0.0, as a fraction of
\* one (confidence is in hundredths)
consensus_score(fb, entries) ==
    IF total_weight(fb, entries) > 0
    THEN Fraction(weighted_confidence(fb, entries),
                  100 * total_weight(fb, entries))
    ELSE Zero

\* FeedbackService.calculate_consensus_score: the dict it returns
FeedbackService_calculate_consensus_score(fb, candidate_id) ==
    LET entries == get_feedback_by_candidate(fb, candidate_id)
        n == Cardinality(entries)
        classifications == {fb[i].expert_classification : i \in entries}
    IN IF entries = {}
       THEN [consensus_score |-> Zero, total_feedback |-> 0,
             agreement_rate |-> Zero, classification_breakdown |-> <<>>,
             average_confidence |-> Zero]
       ELSE [consensus_score |-> consensus_score(fb, entries),
             total_feedback |-> n,
             agreement_rate |->
                Fraction(Cardinality({i \in entries :
                                         fb[i].agrees_with_ai = "True"}), n),
             classification_breakdown |->
                [k \in classifications |->
                   Cardinality({i \in entries :
                                   fb[i].expert_classification = k})],
             average_confidence |->
                Fraction(Sum([i \in entries |-> fb[i].confidence_score],
                             entries), 100 * n),
             weighted_total |-> total_weight(fb, entries)]

\* the fields of the response model that have no default
FeedbackConsensusRequired ==
    {"consensus_score", "total_feedback", "agreement_rate",
     "classification_breakdown", "average_confidence", "weighted_total"}

\* FeedbackConsensus(candidate_id=candidate_id, **consensus_data): raises a
\* validation error when a required field is missing
FeedbackConsensus(candidate_id, consensus_data) ==
    IF FeedbackConsensusRequired \subseteq DOMAIN consensus_data
    THEN [raised |-> FALSE, candidate_id |-> candidate_id,
          body |-> consensus_data]
    ELSE Raised

\* GET /feedback/consensus/{candidate_id}; an exception that no handler
\* catches is answered with status 500
get_consensus_score(candidate_id) ==
    /\ LET model == FeedbackConsensus(candidate_id,
                       FeedbackService_calculate_consensus_score(
                          feedback, candidate_id))
       IN response' =
             IF model.raised
             THEN [op |-> "consensus", status_code |-> 500,
                   candidate_id |-> candidate_id]
             ELSE [op |-> "consensus", status_code |-> HTTP_200_OK,
                   candidate_id |-> candidate_id, body |-> model.body]
    /\ UNCHANGED <<feedback, submitting, users, authored, candidates>>
    /\ UNCHANGED pipeline_vars
    /\ UNCHANGED ml_vars

\* ExoplanetService.calculate_consensus_score: the score it returns and
\* the table after it; the score is stored only when there are entries
ExoplanetService_calculate_consensus_score(db, fb, candidate_id) ==
    LET entries == get_feedback_by_candidate(fb, candidate_id) IN
    IF entries = {}
    THEN [score |-> Zero, db |-> db]
    ELSE LET score == consensus_score(fb, entries) IN
         [score |-> score,
          db |-> IF Found(db, candidate_id)
                 THEN [db EXCEPT ![candidate_id].consensus_score = score]
                 ELSE db]

\* ----------------------------- PUT /analysis/results/{candidate_id}/verdict
update_researcher_verdict(candidate_id, verdict) ==
    /\ IF verdict \notin FinalVerdict
       THEN /\ response' = [op |-> "verdict",
                            status_code |-> HTTP_400_BAD_REQUEST]
            /\ UNCHANGED candidates
       ELSE IF ~Found(candidates, candidate_id)
       THEN /\ response' = [op |-> "verdict",
                            status_code |-> HTTP_404_NOT_FOUND]
            /\ UNCHANGED candidates
       ELSE LET db == [candidates EXCEPT
                          ![candidate_id].final_verdict = verdict]
                r == ExoplanetService_calculate_consensus_score(
                        db, feedback, candidate_id)
            IN /\ candidates' = r.db
               /\ response' = [op |-> "verdict", status_code |-> HTTP_200_OK,
                               candidate_id |-> candidate_id,
                               new_verdict |-> verdict,
                               consensus_score |-> r.score]
    /\ UNCHANGED <<feedback, submitting, users, authored>>
    /\ UNCHANGED pipeline_vars
    /\ UNCHANGED ml_vars

\* ------------------------------------------------ model handler calls
\* the number that stands for a feature row: half the sum of its cells
RowCode(row) == Sum(row, FeatureColumns) \div 2

InvalidInputFormat == [raised |-> TRUE, error |-> "Invalid input format"]
PredictionFailed == [raised |-> TRUE, error |-> "Prediction failed"]

\* batch_predict on a frame, lines 202-205 and then the rest
batch_predict_df(model_loaded, data, fails) ==
    IF ~validate_input_format(data) THEN InvalidInputFormat
    ELSE LET features == preprocess_data(model_loaded, data) IN
         IF features.raised THEN features
         ELSE LET r == batch_predict(
                          model_loaded,
                          [k \in 1..Len(features.rows) |->
                             RowCode(features.rows[k])],
                          fails)
              IN IF r.raised THEN PredictionFailed ELSE r

\* ml_model.predict(ml_model.preprocess_data(df)), analysis.py line 86: the
\* prediction for the first row of the features
predict_df(model_loaded, data, fails) ==
    LET features == preprocess_data(model_loaded, data) IN
    IF features.raised THEN features
    ELSE LET r == predict(model_loaded, RowCode(features.rows[1]), fails)
         IN IF r.raised THEN PredictionFailed ELSE r

\* a call of the model handler on the frame returns
Returns(op, value) ==
    /\ result = NoResult
    /\ result' = [op |-> op, value |-> value]
    /\ UNCHANGED <<candidates, response, model_kind, frame>>
    /\ UNCHANGED pipeline_vars
    /\ UNCHANGED feedback_vars

call_validate_input_format ==
    Returns("validate_input_format", validate_input_format(frame))

call_preprocess_data ==
    Returns("preprocess_data", preprocess_data(model_available, frame))

call_predict ==
    \E fails \in BOOLEAN :
       Returns("predict", predict_df(model_available, frame, fails))

call_batch_predict ==
    \E fails \in BOOLEAN :
       Returns("batch_predict", batch_predict_df(model_available, frame, fails))

\* the caller has taken the returned value
take_result ==
    /\ result # NoResult
    /\ result' = NoResult
    /\ UNCHANGED <<candidates, response, model_kind, frame>>
    /\ UNCHANGED pipeline_vars
    /\ UNCHANGED feedback_vars

\* ------------------------------------------------------------ environment
\* the server sends the handler's response to the client
send_response ==
    /\ response # NoResponse
    /\ response' = NoResponse
    /\ UNCHANGED <<candidates, tasks, created, model_available, log>>
    /\ UNCHANGED feedback_vars /\ UNCHANGED ml_vars

\* the logger writes the record of the task that has just ended
write_log ==
    /\ log # NoLog
    /\ log' = NoLog
    /\ UNCHANGED <<candidates, tasks, created, model_available, response>>

\* A response is sent when its handler returns and a log record is written
\* when it is made, so every other step starts with neither waiting.
Idle == response = NoResponse /\ log = NoLog

\* The inference pipeline: the expert feedback tables are not touched.
Next ==
    \/ send_response
    \/ write_log /\ UNCHANGED feedback_vars /\ UNCHANGED ml_vars
    \/ Idle /\ UNCHANGED feedback_vars /\ UNCHANGED ml_vars
            /\ \E c \in Ids : analyze_candidate(c)
    \/ Idle /\ UNCHANGED feedback_vars /\ UNCHANGED ml_vars
            /\ \E f \in FileNames \cup {None}, o \in BOOLEAN, u \in Users :
                  bulk_analyze_candidates(f, o, u)
    \/ Idle /\ UNCHANGED feedback_vars /\ UNCHANGED ml_vars
            /\ \E c \in Ids, u \in Users : delete_candidate(c, u)
    \/ Idle /\ UNCHANGED feedback_vars /\ UNCHANGED ml_vars
            /\ \E t \in TaskIds : run_ml_prediction(t)
    \/ Idle /\ UNCHANGED feedback_vars /\ UNCHANGED ml_vars
            /\ \E t \in TaskIds : BulkPredict(t)
    \/ Idle /\ UNCHANGED feedback_vars /\ UNCHANGED ml_vars
            /\ \E t \in TaskIds : BulkStoreRow(t)

Spec == Init /\ [][Next]_vars

\* ------------------------------------------------------- expert feedback
\* The feedback handlers on a system whose classifier loads and whose
\* pipeline is idle; they read and write no pipeline state.
FeedbackInit == Init /\ model_available

FeedbackNext ==
    \/ send_response
    \/ Idle /\ \E c \in Reviewed, confidence \in Confidences, u \in Users :
                 create_feedback_read(ResearcherFeedbackCreate(c, confidence),
                                      u)
    \/ Idle /\ \E row \in BagToSet(submitting) : create_feedback_insert(row)
    \/ Idle /\ \E id \in FeedbackIds, body \in UpdateBodies, u \in Users :
                 update_feedback(id, body, u)
    \/ Idle /\ \E id \in FeedbackIds, u \in Users : delete_feedback(id, u)
    \/ Idle /\ \E c \in Reviewed : get_consensus_score(c)

FeedbackSpec == FeedbackInit /\ [][FeedbackNext]_vars

\* The feedback handlers and the verdict handler, which stores the
\* consensus score.
VerdictLabels == {"confirmed", "unknown"}

VerdictNext ==
    \/ FeedbackNext
    \/ Idle /\ \E c \in Reviewed \cup {NumCandidates + 1},
                  verdict \in VerdictLabels :
                 update_researcher_verdict(c, verdict)

VerdictSpec == FeedbackInit /\ [][VerdictNext]_vars

\* The consensus engine on any table of feedback: up to MaxFeedback rows of
\* different experts, with weights that a role and a track record give.
StoredWeights == {1000, 1200, 2000}

StoredRows(i) ==
    {db_feedback(ResearcherFeedbackCreate(c, confidence),
                 ((i - 1) % NumUsers) + 1, w) :
        c \in Reviewed, confidence \in Confidences, w \in StoredWeights}

ConsensusInit ==
    /\ candidates = [c \in Ids |-> InitialCandidate]
    /\ tasks = [t \in TaskIds |-> NoTask]
    /\ created = 0
    /\ model_available = TRUE
    /\ response = NoResponse
    /\ log = NoLog
    /\ submitting = EmptyBag
    /\ users = InitialUsers
    /\ model_kind = PREDICT_PROBA
    /\ frame = NoFrame
    /\ result = NoResult
    /\ \E n \in 1..MaxFeedback :
          /\ feedback \in [1..n -> UNION {StoredRows(i) : i \in 1..n}]
          /\ \A i \in 1..n : feedback[i] \in StoredRows(i)
          /\ \A i, j \in 1..n :
                (i # j /\ feedback[i].candidate_id = feedback[j].candidate_id)
                   => feedback[i].researcher_id # feedback[j].researcher_id
    /\ authored = [u \in Users |->
                     Cardinality({i \in 1..Len(feedback) :
                                     feedback[i].researcher_id = u})]

ConsensusNext ==
    \/ send_response
    \/ Idle /\ \E c \in Reviewed : get_consensus_score(c)
    \/ Idle /\ \E c \in Reviewed : update_researcher_verdict(c, "confirmed")

ConsensusSpec == ConsensusInit /\ [][ConsensusNext]_vars

\* Feedback weights for any role and track record: every user has one of
\* the roles and some number of feedback rows on other records.
PriorCounts == {0, 99, 150}

WeightInit ==
    /\ candidates = [c \in Ids |-> InitialCandidate]
    /\ tasks = [t \in TaskIds |-> NoTask]
    /\ created = 0
    /\ model_available = TRUE
    /\ response = NoResponse
    /\ log = NoLog
    /\ feedback = <<>>
    /\ submitting = EmptyBag
    /\ users \in [Users -> [role : UserRole, other_feedback : PriorCounts]]
    /\ model_kind = PREDICT_PROBA
    /\ frame = NoFrame
    /\ result = NoResult
    /\ authored = [u \in Users |-> 0]

WeightNext ==
    \/ send_response
    \/ Idle /\ \E c \in Reviewed, u \in Users :
                 create_feedback_read(ResearcherFeedbackCreate(c, 90), u)
    \/ Idle /\ \E row \in BagToSet(submitting) : create_feedback_insert(row)

WeightSpec == WeightInit /\ [][WeightNext]_vars

\* Requests that name ids that are not stored, among the feedback handlers,
\* the verdict handler and the single-record trigger with its task.
UnknownId == NumCandidates + 1

NotFoundNext ==
    \/ FeedbackNext
    \/ write_log /\ UNCHANGED feedback_vars /\ UNCHANGED ml_vars
    \/ Idle /\ \E confidence \in Confidences, u \in Users :
                 create_feedback_read(
                    ResearcherFeedbackCreate(UnknownId, confidence), u)
    \/ Idle /\ \E id \in FeedbackIds : get_feedback(id)
    \/ Idle /\ \E c \in {1, UnknownId} :
                 update_researcher_verdict(c, "confirmed")
    \/ Idle /\ UNCHANGED feedback_vars /\ UNCHANGED ml_vars
            /\ \E c \in {1, UnknownId} : analyze_candidate(c)
    \/ Idle /\ UNCHANGED feedback_vars /\ UNCHANGED ml_vars
            /\ \E t \in TaskIds : run_ml_prediction(t)

NotFoundSpec == FeedbackInit /\ [][NotFoundNext]_vars

\* The inference pipeline with a classifier of any kind.
ClassifierInit ==
    /\ candidates = [c \in Ids |-> InitialCandidate]
    /\ tasks = [t \in TaskIds |-> NoTask]
    /\ created = 0
    /\ model_available = TRUE
    /\ response = NoResponse
    /\ log = NoLog
    /\ feedback = <<>>
    /\ submitting = EmptyBag
    /\ users = InitialUsers
    /\ authored = [u \in Users |-> 0]
    /\ model_kind \in ModelKinds
    /\ frame = NoFrame
    /\ result = NoResult

\* the two triggers and their tasks; the batch trigger takes every pending
\* record
ClassifierNext ==
    \/ send_response
    \/ write_log /\ UNCHANGED feedback_vars /\ UNCHANGED ml_vars
    \/ Idle /\ UNCHANGED feedback_vars /\ UNCHANGED ml_vars
            /\ \E c \in Ids : analyze_candidate(c)
    \/ Idle /\ UNCHANGED feedback_vars /\ UNCHANGED ml_vars
            /\ \E u \in Users : bulk_analyze_candidates(None, FALSE, u)
    \/ Idle /\ UNCHANGED feedback_vars /\ UNCHANGED ml_vars
            /\ \E t \in TaskIds : run_ml_prediction(t)
    \/ Idle /\ UNCHANGED feedback_vars /\ UNCHANGED ml_vars
            /\ \E t \in TaskIds : BulkPredict(t)
    \/ Idle /\ UNCHANGED feedback_vars /\ UNCHANGED ml_vars
            /\ \E t \in TaskIds : BulkStoreRow(t)

ClassifierSpec == ClassifierInit /\ [][ClassifierNext]_vars

\* The model handler on one frame.  The frame has one to MaxRows rows and
\* lacks at most one column; one column has nulls in any of the rows; row k
\* holds k mod 2 in its flags and 2.0 * k elsewhere.
Cell(c, k) == IF c \in flag_columns THEN k % 2 ELSE 20 * k

TestFrame(n, missing, col, nulls) ==
    [columns |-> FeatureColumns \ missing,
     rows |-> [k \in 1..n |->
                 [c \in FeatureColumns \ missing |->
                    IF c = col /\ k \in nulls THEN None ELSE Cell(c, k)]]]

HandlerInit ==
    /\ candidates = [c \in Ids |-> InitialCandidate]
    /\ tasks = [t \in TaskIds |-> NoTask]
    /\ created = 0
    /\ model_available \in BOOLEAN
    /\ response = NoResponse
    /\ log = NoLog
    /\ feedback = <<>>
    /\ submitting = EmptyBag
    /\ users = InitialUsers
    /\ authored = [u \in Users |-> 0]
    /\ model_kind \in ModelKinds
    /\ \E n \in 1..MaxRows, col \in FeatureColumns :
          \E missing \in {{}} \cup {{c} : c \in FeatureColumns},
             nulls \in SUBSET (1..n) :
             frame = TestFrame(n, missing, col, nulls)
    /\ result = NoResult

HandlerNext ==
    \/ call_validate_input_format
    \/ call_preprocess_data
    \/ call_predict
    \/ call_batch_predict
    \/ take_result

HandlerSpec == HandlerInit /\ [][HandlerNext]_vars

TypeOK ==
    /\ created \in 0..MaxTasks
    /\ \A c \in Ids : candidates[c] = NoRow
                      \/ candidates[c].analysis_status \in AnalysisStatus

\* ================================================================ claims
Status(db, c) == db[c].analysis_status

\* the record c is stored before and after the step and its status changes
StatusChanges(c) ==
    /\ candidates[c] # NoRow /\ candidates'[c] # NoRow
    /\ Status(candidates, c) # Status(candidates', c)

StateMachineEdges ==
    {<<PENDING, PROCESSING>>, <<PROCESSING, COMPLETED>>,
     <<PROCESSING, ERROR>>, <<COMPLETED, PROCESSING>>, <<ERROR, PROCESSING>>}

PredictAnswered(c) ==
    /\ response = NoResponse
    /\ response'.op = "predict"
    /\ response'.status_code = HTTP_200_OK
    /\ response'.candidate_id = c

\* C3: the trigger on a completed record returns the stored prediction and
\* confidence, schedules nothing and changes no record (so a second trigger
\* returns the same).
C3_CompletedShortCircuit ==
    [][\A c \in Ids :
          (PredictAnswered(c) /\ Status(candidates, c) = COMPLETED) =>
             /\ response'.prediction = candidates[c].ai_prediction
             /\ response'.confidence_score = candidates[c].ai_confidence_score
             /\ UNCHANGED <<candidates, tasks, created>>]_vars

\* a trigger has just returned the stored result of a completed record
C3_Witness ==
    /\ response.op = "predict"
    /\ response.status_code = HTTP_200_OK
    /\ response.prediction \in {"FALSE POSITIVE", "CONFIRMED", "CANDIDATE"}
    /\ Status(candidates, response.candidate_id) = COMPLETED

\* C4: the trigger on a stored record that is not completed sets it to
\* processing, answers PROCESSING with confidence 0.0, schedules exactly one
\* task for the record and writes nothing else.
C4_TriggerStartsProcessing ==
    [][\A c \in Ids :
          (PredictAnswered(c) /\ Status(candidates, c) # COMPLETED) =>
             /\ candidates' = [candidates EXCEPT
                                 ![c].analysis_status = PROCESSING]
             /\ response'.prediction = "PROCESSING"
             /\ response'.confidence_score = 0
             /\ created' = created + 1
             /\ tasks' = [tasks EXCEPT ![created'] = NewSingleTask(c)]]_vars

\* a trigger has just answered PROCESSING after an earlier task has ended,
\* and the task it scheduled is waiting to start
C4_Witness ==
    /\ response.op = "predict"
    /\ response.status_code = HTTP_200_OK
    /\ response.prediction = "PROCESSING"
    /\ Status(candidates, response.candidate_id) = PROCESSING
    /\ created = MaxTasks
    /\ tasks[created] = NewSingleTask(response.candidate_id)
    /\ tasks[1].pc = "done"
\* the step is a step of the batch task t on a chunk that has records
ChunkStep(t) ==
    /\ IsBulk(t) /\ tasks[t].pc = "chunk"
    /\ tasks'[t] # tasks[t]
    /\ \E id \in Range(BatchIds(tasks[t].candidate_ids, tasks[t].i)) :
          Found(candidates, id)

\* ... in which the chunk's batch prediction raised
ChunkFails(t) == ChunkStep(t) /\ tasks'[t].pc # "store"

\* the task t is still running after the step, at the chunk after this one
\* or at its end with nothing raised
GoesOn(t) ==
    \/ /\ tasks'[t].pc = "chunk"
       /\ tasks'[t].i = tasks[t].i + batch_size
    \/ /\ tasks'[t].pc = "done"
       /\ log'.event = "bulk_completed"
       /\ tasks[t].i + batch_size >= Len(tasks[t].candidate_ids)

\* C5 as stated: when the prediction of a chunk fails, every record of the
\* chunk is marked error, no record outside the chunk is touched, and the
\* task goes on to the next chunk.
C5_ChunkFailureIsolated ==
    [][\A t \in TaskIds : ChunkFails(t) =>
          LET chunk == Range(BatchIds(tasks[t].candidate_ids, tasks[t].i)) IN
          /\ \A id \in chunk : Found(candidates', id) =>
                                  Status(candidates', id) = ERROR
          /\ \A c \in Ids \ chunk : candidates'[c] = candidates[c]
          /\ GoesOn(t)]_vars

\* the records of the chunk that the step newly marks error
NewlyError(chunk) ==
    {id \in chunk : /\ Found(candidates, id) /\ Found(candidates', id)
                    /\ Status(candidates, id) # ERROR
                    /\ Status(candidates', id) = ERROR}

\* the step is a store step of the batch task t
StoreStep(t) ==
    /\ IsBulk(t) /\ tasks[t].pc = "store"
    /\ tasks'[t] # tasks[t]

\* C6 as stated: with the classifier loaded, a prediction exception caused
\* by one row puts at most that row's record in error, the others of the
\* chunk go on to be stored; and a store step touches only its own row's
\* record, leaving it completed or error, and the task goes on.
C6_RowFailureIsolated ==
    [][\A t \in TaskIds :
          /\ (ChunkFails(t) /\ model_available) =>
                Cardinality(NewlyError(
                   Range(BatchIds(tasks[t].candidate_ids, tasks[t].i)))) <= 1
          /\ StoreStep(t) =>
                LET id == tasks[t].candidate_map[tasks[t].idx] IN
                /\ \A c \in Ids \ {id} : candidates'[c] = candidates[c]
                /\ Found(candidates', id) =>
                      Status(candidates', id) \in {COMPLETED, ERROR}
                /\ log'.event # "bulk_error"]_vars

\* C7 as stated: the counters logged when the batch task finishes satisfy
\* total_successful + total_errors = number of ids, and total_processed is
\* that number.
C7_CountersSumToInput ==
    log.event = "bulk_completed" =>
       /\ log.total_successful + log.total_errors = Len(log.candidate_ids)
       /\ log.total_processed = Len(log.candidate_ids)

\* C8: when the bulk trigger returns, every queued record is processing and
\* its batch task has not taken a step; and no record of a batch task that
\* has not yet taken a step is pending.
C8_QueuedAreProcessing ==
    /\ (response.op = "bulk" /\ response.status_code = HTTP_200_OK
          /\ response.queued_for_analysis > 0) =>
          /\ \A id \in Range(response.candidate_ids) :
                Found(candidates, id) /\ Status(candidates, id) = PROCESSING
          /\ tasks[created] = NewBulkTask(response.candidate_ids)
    /\ \A t \in TaskIds :
          (IsBulk(t) /\ tasks[t] = NewBulkTask(tasks[t].candidate_ids)) =>
             \A id \in Range(tasks[t].candidate_ids) :
                Found(candidates, id) => Status(candidates, id) # PENDING

\* a bulk trigger has just queued a chunk and a half
C8_Witness ==
    /\ response.op = "bulk" /\ response.status_code = HTTP_200_OK
    /\ response.queued_for_analysis > batch_size
    /\ \A id \in Range(response.candidate_ids) :
          Status(candidates, id) = PROCESSING

\* the requests of the bulk trigger: an optional file name and, when asked
\* for, the owner to filter by
BulkRequests ==
    {<<f, FALSE, 1>> : f \in FileNames \cup {None}}
       \cup {<<f, TRUE, u>> : f \in FileNames \cup {None}, u \in Users}

C10_ModelUnavailable ==
    [][~model_available =>
          /\ \A c \in Ids : Found(candidates', c) =>
                /\ Status(candidates', c) # COMPLETED
                /\ candidates'[c].ai_prediction = None
                /\ candidates'[c].ai_confidence_score = None
          /\ \A t \in TaskIds :
                /\ (IsSingle(t) /\ tasks'[t] # tasks[t]) =>
                      /\ created' = created
                      /\ \A id \in Range(tasks[t].candidate_ids) :
                            Found(candidates', id) =>
                               Status(candidates', id) = ERROR
                /\ ChunkStep(t) =>
                      /\ created' = created
                      /\ tasks'[t].pc # "store"
                      /\ \A id \in Range(BatchIds(tasks[t].candidate_ids,
                                                  tasks[t].i)) :
                            Found(candidates', id) =>
                               Status(candidates', id) = ERROR]_vars

\* without the classifier a batch task of more than one chunk has ended
\* normally and all its records are in error
C10_Witness ==
    /\ ~model_available
    /\ log.event = "bulk_completed"
    /\ Len(log.candidate_ids) > batch_size
    /\ \A id \in Range(log.candidate_ids) :
          Found(candidates, id) /\ Status(candidates, id) = ERROR

\* the expert u has a stored feedback entry for the record c
HasEntry(fb, c, u) ==
    \E i \in 1..Len(fb) : /\ fb[i] # NoRow
                          /\ fb[i].candidate_id = c
                          /\ fb[i].researcher_id = u

\* C11 as stated: the store never holds two feedback entries of the same
\* expert for the same record.
C11_OneEntryPerPair ==
    \A i, j \in 1..Len(feedback) :
       (i # j /\ feedback[i] # NoRow /\ feedback[j] # NoRow) =>
          \/ feedback[i].candidate_id # feedback[j].candidate_id
          \/ feedback[i].researcher_id # feedback[j].researcher_id

\* C12: a submission by an expert who has an entry for the record is
\* answered 400, leaves the store as it is, every field of the first entry
\* included, and starts no insert.
C12_DuplicateRejected ==
    [][(response'.op = "submit" \/ submitting' # submitting) =>
       \A c \in Reviewed, confidence \in Confidences, u \in Users :
          (/\ HasEntry(feedback, c, u)
           /\ create_feedback_read(ResearcherFeedbackCreate(c, confidence), u))
          => /\ response'.status_code = HTTP_400_BAD_REQUEST
             /\ feedback' = feedback
             /\ submitting' = submitting]_vars

\* a submission has just been rejected while the store holds an entry that
\* was edited before
C12_Witness ==
    /\ response.op = "submit"
    /\ response.status_code = HTTP_400_BAD_REQUEST
    /\ \E i \in 1..Len(feedback) :
          feedback[i] # NoRow /\ feedback[i].detailed_reasoning = "revised"

\* the weighted consensus score of the record's current entries, 0.0
\* without entries
CurrentConsensus(fb, c) ==
    LET entries == {i \in 1..Len(fb) : fb[i] # NoRow /\ fb[i].candidate_id = c}
    IN IF entries = {} THEN Zero ELSE consensus_score(fb, entries)

\* C13 as stated: when a create, update or delete of a feedback entry has
\* completed, the consensus_score stored on every reviewed record is the
\* weighted consensus score of its current entries.
C13_StoredConsensusFollowsFeedback ==
    (/\ response.op \in {"submit", "update", "delete_feedback"}
     /\ response.status_code \in {HTTP_200_OK, HTTP_201_CREATED}) =>
       \A c \in Reviewed :
          candidates[c].consensus_score = CurrentConsensus(feedback, c)

\* C14 as stated: the verdict operation leaves the record's stored
\* consensus_score equal to the weighted consensus score of its current
\* entries (0.0 without entries) and returns that value; a label outside
\* the enumeration is rejected and changes nothing.
C14_VerdictRefreshesConsensus ==
    [][(response = NoResponse /\ response'.op = "verdict") =>
          IF response'.status_code = HTTP_200_OK
          THEN LET c == response'.candidate_id IN
               /\ candidates'[c].final_verdict = response'.new_verdict
               /\ candidates'[c].consensus_score
                     = CurrentConsensus(feedback', c)
               /\ response'.consensus_score = CurrentConsensus(feedback', c)
          ELSE candidates' = candidates]_vars

\* C15 as stated: get_consensus for a record without feedback entries is
\* answered 200 with score 0.0, total 0, agreement rate 0.0, an empty
\* breakdown and average confidence 0.0.
C15_EmptyConsensusSucceeds ==
    (/\ response.op = "consensus"
     /\ \A i \in 1..Len(feedback) :
           feedback[i] # NoRow =>
              feedback[i].candidate_id # response.candidate_id) =>
       /\ response.status_code = HTTP_200_OK
       /\ response.body.consensus_score = Zero
       /\ response.body.total_feedback = 0
       /\ response.body.agreement_rate = Zero
       /\ response.body.classification_breakdown = <<>>
       /\ response.body.average_confidence = Zero

\* the score an operation has just returned for the record c, if any
ReturnedScore(c) ==
    IF response.op = "consensus" THEN response.body.consensus_score
    ELSE response.consensus_score

RoleBase(role) ==
    CASE role = RESEARCHER -> 10
      [] role = MODERATOR -> 12
      [] role = ADMIN -> 15

\* the number of feedback rows of the expert u in the whole table
AuthoredNow(u) ==
    users[u].other_feedback
       + Cardinality({i \in 1..Len(feedback) :
                         feedback[i] # NoRow /\ feedback[i].researcher_id = u})

\* the rows whose creation the step starts
Started ==
    {row \in BagToSet(submitting') :
        CopiesIn(row, submitting') > CopiesIn(row, submitting)}

\* C17: the weight given to a new entry is role_base x min(1 + 0.01 x
\* prior_count, 2.0), between 1.0 and 3.0, and it is the weight the entry
\* is stored with.
C17_WeightFormula ==
    [][/\ \A row \in Started :
             LET prior == AuthoredNow(row.researcher_id)
                 capped == IF 100 + prior < 200 THEN 100 + prior ELSE 200
             IN /\ row.feedback_weight
                      = RoleBase(users[row.researcher_id].role) * capped
                /\ row.feedback_weight >= 1000
                /\ row.feedback_weight <= 3000
       /\ Len(feedback') > Len(feedback) =>
             /\ BagIn(feedback'[Len(feedback')], submitting)
             /\ response'.row = feedback'[Len(feedback')]]_vars

\* a moderator without prior entries has an entry of weight 1.2 and a
\* researcher with 150 prior entries one of weight 2.0
C17_Witness ==
    \E i, j \in 1..Len(feedback) :
       /\ users[feedback[i].researcher_id]
             = [role |-> MODERATOR, other_feedback |-> 0]
       /\ feedback[i].feedback_weight = 1200
       /\ users[feedback[j].researcher_id]
             = [role |-> RESEARCHER, other_feedback |-> 150]
       /\ feedback[j].feedback_weight = 2000

\* C18 as stated: the weight of a new entry is computed from the number of
\* entries its expert has authored before, whatever was edited or deleted
\* since.
C18_PriorCountIsAuthored ==
    [][\A row \in Started :
          LET u == row.researcher_id
              prior == users[u].other_feedback + authored[u]
              capped == IF 100 + prior < 200 THEN 100 + prior ELSE 200
          IN row.feedback_weight = RoleBase(users[u].role) * capped]_vars

\* C19: no step changes the feedback_weight of an entry that stays stored:
\* not an edit of the entry, and not a submission, edit or deletion of
\* another entry.
C19_WeightFrozen ==
    [][\A i \in 1..Len(feedback) :
          (feedback[i] # NoRow /\ feedback'[i] # NoRow) =>
             feedback'[i].feedback_weight = feedback[i].feedback_weight]_vars

\* an expert's first entry has been edited and still has the weight of an
\* expert without entries, while the expert's later entry has a higher one
C19_Witness ==
    \E i, j \in 1..Len(feedback) :
       /\ i < j
       /\ feedback[i] # NoRow /\ feedback[j] # NoRow
       /\ feedback[i].researcher_id = feedback[j].researcher_id
       /\ feedback[i].detailed_reasoning = "revised"
       /\ feedback[i].expert_classification = "CONFIRMED"
       /\ feedback[i].feedback_weight < feedback[j].feedback_weight

NotFoundResult ==
    /\ response'.status_code = HTTP_404_NOT_FOUND
    /\ UNCHANGED <<candidates, feedback, tasks, created>>

C21_UnknownIdNotFound ==
    [][/\ (analyze_candidate(UnknownId) /\ UNCHANGED feedback_vars)
             => NotFoundResult
       /\ update_researcher_verdict(UnknownId, "confirmed") => NotFoundResult
       /\ \A id \in FeedbackIds :
             get_feedback_by_id(feedback, id) = NoRow =>
                /\ get_feedback(id) => NotFoundResult
                /\ \A u \in Users :
                      /\ delete_feedback(id, u) => NotFoundResult
                      /\ \A body \in UpdateBodies :
                            update_feedback(id, body, u) => NotFoundResult
       /\ \A confidence \in Confidences, u \in Users :
             create_feedback_read(
                ResearcherFeedbackCreate(UnknownId, confidence), u)
                => NotFoundResult
       /\ \A i \in 1..Len(feedback') :
             feedback'[i] # NoRow => feedback'[i].candidate_id \in Ids]_vars

\* C22: every stored record whose status is completed has a prediction and
\* a confidence score that are not null, and the score lies in [0, 1],
\* whether it is a class probability, the sigmoid of a margin or the
\* default.
IsNull(x) == ToString(x) = ToString(None)

C22_CompletedHasPrediction ==
    \A c \in Ids :
       (candidates[c] # NoRow /\ candidates[c].analysis_status = COMPLETED) =>
          /\ ~IsNull(candidates[c].ai_prediction)
          /\ ~IsNull(candidates[c].ai_confidence_score)
          /\ candidates[c].ai_confidence_score >= 0
          /\ candidates[c].ai_confidence_score <= 1000

\* a record completed with the sigmoid of a negative margin, strictly
\* between one half and one, beside a record that has no prediction yet
C22_Witness ==
    /\ model_kind = DECISION_FUNCTION
    /\ \E c, d \in Ids :
          /\ candidates[c] # NoRow /\ candidates[d] # NoRow
          /\ candidates[c].analysis_status = COMPLETED
          /\ model_decision_function(feature_row(c)) < 0
          /\ candidates[c].ai_confidence_score > 500
          /\ candidates[c].ai_confidence_score < 1000
          /\ candidates[d].analysis_status = PROCESSING
          /\ IsNull(candidates[d].ai_confidence_score)

\* the same for the default: a record completed with confidence 0.8 by a
\* classifier that has neither method
C22_WitnessDefault ==
    /\ model_kind = NEITHER
    /\ \E c \in Ids :
          /\ candidates[c] # NoRow
          /\ candidates[c].analysis_status = COMPLETED
          /\ candidates[c].ai_confidence_score = 800

\* C23: single and batch prediction label a raw output 0 as FALSE POSITIVE,
\* 1 as CONFIRMED, 2 as CANDIDATE, one of these three names as itself, and
\* anything else as UNKNOWN(<raw value>); the labelling never raises.
ExpectedLabel(raw) ==
    IF raw = IntClass(0) THEN "FALSE POSITIVE"
    ELSE IF raw = IntClass(1) THEN "CONFIRMED"
    ELSE IF raw = IntClass(2) THEN "CANDIDATE"
    ELSE IF raw \in {StrClass("FALSE POSITIVE"), StrClass("CONFIRMED"),
                     StrClass("CANDIDATE")}
    THEN raw.str
    ELSE IF IsInt(raw) THEN "UNKNOWN(" \o ToString(raw.int) \o ")"
    ELSE "UNKNOWN(" \o raw.str \o ")"

\* the classifier's raw output for row k of the frame
RawOf(k) ==
    model_predict(RowCode(preprocess_data(model_available, frame).rows[k]))

C23_LabelMapping ==
    [][(/\ result = NoResult
        /\ result'.op \in {"predict", "batch_predict"}
        /\ model_available
        /\ ~preprocess_data(model_available, frame).raised) =>
          /\ Returns("predict", predict_df(model_available, frame, FALSE)) =>
                /\ ~result'.value.raised
                /\ result'.value.prediction = ExpectedLabel(RawOf(1))
          /\ Returns("batch_predict",
                     batch_predict_df(model_available, frame, FALSE)) =>
                /\ validate_input_format(frame)
                /\ ~result'.value.raised
                /\ Len(result'.value.predictions) = Len(frame.rows)
                /\ \A k \in 1..Len(frame.rows) :
                      result'.value.predictions[k].prediction
                         = ExpectedLabel(RawOf(k))]_vars

\* a batch of two rows has been labelled, one raw output an integer that is
\* no class and the other a string
C23_Witness ==
    /\ result.op = "batch_predict"
    /\ ~result.value.raised
    /\ \E j, k \in 1..Len(frame.rows) :
          /\ IsInt(RawOf(j)) /\ RawOf(j).int \notin 0..2
          /\ result.value.predictions[j].prediction
                \in {"UNKNOWN(3)", "UNKNOWN(-1)"}
          /\ ~IsInt(RawOf(k))

\* C24: preprocess_data, given a frame of one or more rows with any subset
\* of the feature columns, nulls allowed, returns a frame with exactly the
\* feature columns, as many rows in the same order, and no null.
C24_PreprocessTotal ==
    result.op = "preprocess_data" =>
       IF result.value.raised THEN FALSE
       ELSE /\ result.value.columns = feature_columns
            /\ Len(result.value.rows) = Len(frame.rows)
            /\ \A k \in 1..Len(frame.rows), c \in FeatureColumns :
                  /\ ~IsNull(result.value.rows[k][c])
                  /\ (c \in frame.columns /\ ~IsNull(frame.rows[k][c])) =>
                        result.value.filled[k][c] = frame.rows[k][c]

\* C25 as stated: a non-flag column that is null in every row holds, before
\* scaling, the default of its name in every row, and that is not 0.
NonFlagColumns ==
    FeatureColumns \ {"koi_fpflag_nt", "koi_fpflag_ss", "koi_fpflag_co",
                      "koi_fpflag_ec"}

AllNull(col) ==
    col \in frame.columns /\ \A k \in 1..Len(frame.rows) :
                                IsNull(frame.rows[k][col])

C30_AcceptedPreprocesses ==
    (validate_input_format(frame)
        /\ result.op \in {"preprocess_data", "batch_predict"}) =>
       ~(result.value.raised
            /\ result.value.error = "Data preprocessing failed")

\* C26: when the outer except clause of the only batch task there has been
\* fires, a record that is completed, which only that task can have done,
\* keeps its status and its prediction.
C26_OuterHandlerKeepsCompleted ==
    [][(created = 1 /\ log'.event = "bulk_error") =>
          \A c \in Ids :
             (Found(candidates, c) /\ Status(candidates, c) = COMPLETED) =>
                candidates'[c] = candidates[c]]_vars

\* another task that names record c is scheduled or running after the step
OtherAttempt(t, c) ==
    \E t2 \in TaskIds \ {t} :
       /\ tasks'[t2].pc \notin {"none", "done"}
       /\ c \in Range(tasks'[t2].candidate_ids)

OwnResult(c) ==
    [prediction |-> ExpectedLabel(model_predict(feature_row(c))),
     confidence |-> IF model_kind = PREDICT_PROBA
                    THEN model_predict_proba(feature_row(c))
                    ELSE IF model_kind = DECISION_FUNCTION
                    THEN Sigmoid(Abs(model_decision_function(feature_row(c))))
                    ELSE 800]

\* C29: every record a store step of the batch task sets to completed gets
\* the label and confidence computed from its own feature row, and the row
\* being stored is the row that record supplied, in whatever order the
\* chunk's records were fetched and with ids of the chunk missing.
C29_ResultOnOwnRecord ==
    [][\A t \in TaskIds :
          StoreStep(t) =>
             /\ tasks[t].batch_data[tasks[t].idx] =
                   feature_row(tasks[t].candidate_map[tasks[t].idx])
             /\ \A c \in Ids :
                   (/\ Found(candidates', c)
                    /\ candidates'[c] # candidates[c]
                    /\ Status(candidates', c) = COMPLETED) =>
                      /\ candidates'[c].ai_prediction = OwnResult(c).prediction
                      /\ candidates'[c].ai_confidence_score =
                            OwnResult(c).confidence]_vars

\* a batch task fetched a chunk's two records in the reverse of the order of
\* its ids, has stored the first row and is about to store the second
C29_Witness ==
    \E t \in TaskIds :
       /\ IsBulk(t) /\ tasks[t].pc = "store" /\ tasks[t].idx = 2
       /\ tasks[t].candidate_map[1] = tasks[t].batch_ids[2]
       /\ tasks[t].candidate_map[2] = tasks[t].batch_ids[1]
       /\ LET c == tasks[t].candidate_map[1] IN
          /\ Found(candidates, c)
          /\ Status(candidates, c) = COMPLETED
          /\ candidates[c].ai_prediction = OwnResult(c).prediction
          /\ candidates[c].ai_confidence_score = OwnResult(c).confidence

\* the only task ever started is a batch task of records 1, 2, 3; record 1
\* was gone when the first chunk was fetched, and the chunk's one row was
\* stored on record 2
C29_WitnessMissing ==
    /\ created = 1
    /\ IsBulk(1) /\ tasks[1].candidate_ids = <<1, 2, 3>>
    /\ tasks[1].i = batch_size
    /\ tasks[1].total_successful = 1 /\ tasks[1].total_errors = 0
    /\ ~Found(candidates, 1)
    /\ Found(candidates, 2)
    /\ Status(candidates, 2) = COMPLETED
    /\ candidates[2].ai_prediction = OwnResult(2).prediction
    /\ candidates[2].ai_confidence_score = OwnResult(2).confidence

\* the tasks scheduled or running that name record c
InFlight(tsk, c) ==
    {t \in TaskIds : /\ tsk[t].pc \notin {"none", "done"}
                     /\ c \in Range(tsk[t].candidate_ids)}

\* the step adds the background task t
TaskAdded(t) == tasks[t].pc = "none" /\ tasks'[t].pc # "none"

====
